---- MODULE Spec2Model ----
(***************************************************************************)
(* ScholarLens search aggregation engine: SearchController.SearchAsync,    *)
(* SearchService (fan-out, deduplication, open-access enrichment, filter,  *)
(* truncation, persistence) and RankingService (BM25 + recency ranking).   *)
(*                                                                         *)
(* Strings are sequences of one-character strings, so that ToLowerInvariant,*)
(* Trim, Split, Contains and Intersect are computed as the code computes   *)
(* them.  Doubles are fixed-point integers (Scale units per 1.0) together  *)
(* with a NaN flag.  A nullable int is a sequence of length 0 or 1.        *)
(***************************************************************************)
EXTENDS Integers, Sequences, FiniteSets, TLC

VARIABLES
    dPapers,      \* Deduplicator check: the merged input list
    dOut,         \* Deduplicator check: DeduplicatePapersAsync's result
    dDone,        \* Deduplicator check: the call has returned
    kQuery,       \* Ranker check: the query text
    kPapers,      \* Ranker check: the input list
    kOut,         \* Ranker check: RankPapersAsync's result
    kDone,        \* Ranker check: the call has returned
    search,       \* per HTTP request: the state of SearchController/SearchService.SearchAsync
    topics,       \* store: the rows of table topics
    searchResults,\* store: the rows of table search_results
    cache,        \* distributed cache: cache key -> cached paper list
    oaCache,      \* distributed cache: DOI -> cached OpenAccessInfo text
    lookup,       \* Resolver check: the last UnpaywallClient.LookupAsync call
    enrich,       \* Enrich check: the state of one EnhanceWithOpenAccessAsync call
    join          \* Fan-out check: the source tasks of one SearchAsync call and what follows

dedupVars == <<dPapers, dOut, dDone>>
rankVars == <<kQuery, kPapers, kOut, kDone>>
storeVars == <<topics, searchResults>>
pipeVars == <<search, topics, searchResults, cache>>
resolverVars == <<oaCache, lookup, enrich>>
joinVars == <<join>>
vars == <<dPapers, dOut, dDone, kQuery, kPapers, kOut, kDone,
          search, topics, searchResults, cache, oaCache, lookup, enrich, join>>

----------------------------------------------------------------------------
(* Bounds *)

MaxDedupLen == 3
MaxRankLen == 3
MaxLookups == 3
MaxEnrichDois == 11

----------------------------------------------------------------------------
(* Generic helpers *)

Min2(a, b) == IF a <= b THEN a ELSE b
Max2(a, b) == IF a >= b THEN a ELSE b

Range(s) == {s[i] : i \in 1..Len(s)}

\* All sequences of length <= n of pairwise distinct elements of S.
InjSeqs(S, n) ==
    {s \in UNION {[1..k -> S] : k \in 0..n} :
        \A i, j \in 1..Len(s) : i # j => s[i] # s[j]}

\* List<T>.Remove(x): removes the first element equal to x, if any.
RemoveFirst(s, x) ==
    IF \E i \in 1..Len(s) : s[i] = x
    THEN LET i == CHOOSE k \in 1..Len(s) : s[k] = x /\ \A j \in 1..(k - 1) : s[j] # x
         IN  SubSeq(s, 1, i - 1) \o SubSeq(s, i + 1, Len(s))
    ELSE s

----------------------------------------------------------------------------
(* Strings *)

Null == "<null>"

\* string.IsNullOrEmpty on an opaque string (DOI, URL); texts that are
\* inspected character by character (title, abstract, query) are sequences.
IsNullOrEmpty(str) == str = Null \/ str = ""

UpperToLower == [c \in {"A", "B", "D", "N"} |->
                    CASE c = "A" -> "a" [] c = "B" -> "b" [] c = "D" -> "d" [] c = "N" -> "n"]

ToLowerInvariant(str) ==
    [i \in 1..Len(str) |-> IF str[i] \in DOMAIN UpperToLower THEN UpperToLower[str[i]] ELSE str[i]]

WhiteSpace == {" ", "\t", "\n", "\r"}

RECURSIVE TrimStart(_)
TrimStart(str) ==
    IF str # <<>> /\ Head(str) \in WhiteSpace THEN TrimStart(Tail(str)) ELSE str

RECURSIVE TrimEnd(_)
TrimEnd(str) ==
    IF str # <<>> /\ str[Len(str)] \in WhiteSpace
    THEN TrimEnd(SubSeq(str, 1, Len(str) - 1)) ELSE str

Trim(str) == TrimEnd(TrimStart(str))

----------------------------------------------------------------------------
(* ExternalPaper records.  `ref` is the identity of the object: the record  *)
(* type compares its Authors list and RawData by reference, so two papers   *)
(* are Equal only if they are the same instance.                            *)

W_deep == <<"d", "e", "e", "p">>
W_nets == <<"n", "e", "t", "s">>
W_net  == <<"n", "e", "t">>
SP     == <<" ">>

T_DeepNets   == <<"D", "e", "e", "p">> \o SP \o <<"N", "e", "t", "s">>
T_deepnetsWs == W_deep \o SP \o W_nets \o SP
T_node       == <<"n", "o", "d", "e">>
T_done       == <<"d", "o", "n", "e">>
T_Nets       == <<"N", "e", "t", "s">>

Repeat(str, n) == [i \in 1..(n * Len(str)) |-> str[((i - 1) % Len(str)) + 1]]

Paper(ref, source, title, abstract, doi, pdfUrl, year, oa, authors) ==
    [ref |-> ref, source |-> source, title |-> title, abstract |-> abstract,
     doi |-> doi, pdfUrl |-> pdfUrl, year |-> year, isOpenAccess |-> oa,
     authors |-> authors]

CurrentYear == 2026
ManyTokens == 101

P1 == Paper(1, "crossref", T_DeepNets, <<>>, "10.1/a", Null, <<CurrentYear>>, FALSE, <<"x", "y">>)
P2 == Paper(2, "semanticscholar", T_deepnetsWs, W_nets, "10.1/a", "u2", <<CurrentYear>>, TRUE, <<"x", "y">>)
P3 == Paper(3, "arxiv", T_DeepNets, W_deep, Null, "u3", <<CurrentYear - 10>>, TRUE, <<"x">>)
P4 == Paper(4, "arxiv", T_node, <<>>, Null, Null, <<>>, TRUE, <<>>)
P5 == Paper(5, "semanticscholar", T_DeepNets, <<>>, "10.1/b", Null, <<CurrentYear - 10>>, FALSE, <<"x">>)
P6 == Paper(6, "crossref", T_done, <<>>, Null, Null, <<CurrentYear>>, FALSE, <<"z">>)
P7 == Paper(7, "crossref", <<>>, <<>>, "", Null, <<>>, FALSE, <<>>)
\* A paper whose abstract repeats one word ManyTokens times and has no year.
P8 == Paper(8, "semanticscholar", T_Nets, Repeat(W_net \o SP, ManyTokens), "10.1/c", Null, <<>>, FALSE, <<"x">>)

\* Papers that have a title and nothing else.
P9 == Paper(9, "arxiv", T_DeepNets, <<>>, Null, Null, <<>>, FALSE, <<>>)
P10 == Paper(10, "arxiv", T_Nets, <<>>, Null, Null, <<>>, FALSE, <<>>)

\* A record of P1's DOI under another title.
P11 == Paper(11, "arxiv", T_node, <<>>, "10.1/a", Null, <<>>, FALSE, <<>>)

Catalog == {P1, P2, P3, P4, P5, P6, P7, P9, P11}

----------------------------------------------------------------------------
(* Deduplicator: SearchService.DeduplicatePapersAsync *)

\* str1.Intersect(str2).Count(): the number of distinct common characters.
CommonChars(str1, str2) == Cardinality(Range(str1) \cap Range(str2))

\* CalculateJaroWinklerSimilarity(a, b) > 0.92, decided exactly:
\* commonChars / ((len1 + len2) / 2.0) > 0.92  <=>  50 * common > 23 * (len1 + len2).
\* (Equality with 0.92 needs len1 + len2 to be a multiple of 25 and is out of
\* reach of the titles used here, so the rounding of 0.92 plays no part.)
SimilarityAboveThreshold(str1, str2) ==
    IF str1 = <<>> \/ str2 = <<>> THEN FALSE
    ELSE LET s1 == Trim(ToLowerInvariant(str1))
             s2 == Trim(ToLowerInvariant(str2))
         IN  IF s1 = s2 THEN TRUE
             ELSE 50 * CommonChars(s1, s2) > 23 * (Len(s1) + Len(s2))

PreferenceScore(p) ==
    (IF ~IsNullOrEmpty(p.doi) THEN 3 ELSE 0)
    + (IF ~IsNullOrEmpty(p.pdfUrl) THEN 2 ELSE 0)
    + (IF p.abstract # <<>> THEN 2 ELSE 0)
    + (IF p.isOpenAccess THEN 1 ELSE 0)
    + Len(p.authors)

IsPreferablePaper(candidate, existing) ==
    PreferenceScore(candidate) > PreferenceScore(existing)

DedupInit == [deduplicatedPapers |-> <<>>, seenDois |-> {}, seenTitles |-> <<>>]

\* Mutant: the seenDois lookup is skipped, every DOI-bearing paper is kept.
DedupStep_NoDoiCheck(st, paper) ==
    IF ~IsNullOrEmpty(paper.doi)
    THEN [deduplicatedPapers |-> Append(st.deduplicatedPapers, paper),
          seenDois |-> st.seenDois \cup {paper.doi},
          seenTitles |-> Append(st.seenTitles, <<paper.title, paper>>)]
    ELSE [st EXCEPT !.deduplicatedPapers = Append(@, paper),
                    !.seenTitles = Append(@, <<paper.title, paper>>)]

\* One iteration of the foreach over the merged list.
DedupStep(st, paper) ==
    IF ~IsNullOrEmpty(paper.doi)
    THEN IF paper.doi \in st.seenDois
         THEN st
         ELSE [deduplicatedPapers |-> Append(st.deduplicatedPapers, paper),
               seenDois |-> st.seenDois \cup {paper.doi},
               seenTitles |-> Append(st.seenTitles, <<paper.title, paper>>)]
    ELSE LET hits == {i \in 1..Len(st.seenTitles) :
                         SimilarityAboveThreshold(paper.title, st.seenTitles[i][1])}
         IN  IF hits = {}
             THEN [st EXCEPT !.deduplicatedPapers = Append(@, paper),
                             !.seenTitles = Append(@, <<paper.title, paper>>)]
             ELSE LET first == CHOOSE i \in hits : \A j \in hits : i <= j
                      existing == st.seenTitles[first]
                  IN  IF IsPreferablePaper(paper, existing[2])
                      THEN [st EXCEPT
                              !.deduplicatedPapers =
                                  Append(RemoveFirst(@, existing[2]), paper),
                              !.seenTitles =
                                  Append(RemoveFirst(@, existing), <<paper.title, paper>>)]
                      ELSE st

RECURSIVE DedupLoop(_, _)
DedupLoop(st, papers) ==
    IF papers = <<>> THEN st ELSE DedupLoop(DedupStep(st, Head(papers)), Tail(papers))

DeduplicatePapers(papers) == DedupLoop(DedupInit, papers).deduplicatedPapers

----------------------------------------------------------------------------
(* Doubles: [nan, v] with v in units of 1/Scale.                            *)

Scale == 10 * 1000

D(v) == [nan |-> FALSE, v |-> v]
NaN == [nan |-> TRUE, v |-> 0]

\* Math.Log(num / den) * Scale for num, den > 0: range reduction to [1, 2) by
\* powers of two, then ln m = 2 atanh((m - 1) / (m + 1)) by its series.
Ln2 == (6931 * Scale) \div 10000

LnSeries(num, den) ==
    LET z  == (Scale * (num - den)) \div (num + den)
        z2 == (z * z) \div Scale
        z3 == (z2 * z) \div Scale
        z5 == (z3 * z2) \div Scale
        z7 == (z5 * z2) \div Scale
    IN  2 * (z + z3 \div 3 + z5 \div 5 + z7 \div 7)

RECURSIVE LnRatio(_, _)
LnRatio(num, den) ==
    IF num >= 2 * den THEN Ln2 + LnRatio(num, 2 * den)
    ELSE IF num < den THEN LnRatio(2 * num, den) - Ln2
    ELSE LnSeries(num, den)

\* Math.Exp(-0.15 * d) * Scale for an integer d >= 0, as a power of e^-0.15.
RECURSIVE ExpDecay(_)
ExpDecay(d) == IF d = 0 THEN Scale ELSE (ExpDecay(d - 1) * 8607) \div 10000

\* Comparer<double>.Default: NaN is smaller than every number and equal to NaN.
CompareDouble(x, y) ==
    IF x.nan THEN (IF y.nan THEN 0 ELSE 0 - 1)
    ELSE IF y.nan THEN 1
    ELSE IF x.v < y.v THEN 0 - 1 ELSE IF x.v > y.v THEN 1 ELSE 0

\* The IEEE operators < and ==, false whenever an operand is NaN.
LessDouble(x, y) == ~x.nan /\ ~y.nan /\ x.v < y.v
EqualDouble(x, y) == ~x.nan /\ ~y.nan /\ x.v = y.v

----------------------------------------------------------------------------
(* Ranker: RankingService *)

Separators == {" ", "\t", "\n", "\r", ".", ",", ";", ":", "!", "?"}

\* string.Split(separators, RemoveEmptyEntries) of str[lo..hi]: cut at a
\* separator (the first one at or after the middle, else the last one before
\* it) and split both sides; a stretch without separators is one entry.
RECURSIVE SplitRange(_, _, _)
SplitRange(str, lo, hi) ==
    IF lo > hi THEN <<>>
    ELSE LET mid == (lo + hi) \div 2
             right == {i \in mid..hi : str[i] \in Separators}
             left == {i \in lo..(mid - 1) : str[i] \in Separators}
         IN  IF right = {} /\ left = {} THEN <<SubSeq(str, lo, hi)>>
             ELSE LET m == IF right # {} THEN CHOOSE i \in right : \A j \in right : i <= j
                           ELSE CHOOSE i \in left : \A j \in left : i >= j
                  IN  SplitRange(str, lo, m - 1) \o SplitRange(str, m + 1, hi)

Split(str) == SplitRange(str, 1, Len(str))

\* Enumerable.Distinct: first occurrences, in order.
RECURSIVE Distinct(_)
Distinct(s) ==
    IF s = <<>> THEN <<>>
    ELSE LET front == Distinct(SubSeq(s, 1, Len(s) - 1))
             last == s[Len(s)]
         IN  IF last \in Range(front) THEN front ELSE Append(front, last)

TokenizeText(text) == SelectSeq(Split(text), LAMBDA token : Len(token) > 2)

TokenizeQuery(query) == Distinct(TokenizeText(ToLowerInvariant(query)))

\* a.Contains(b) for non-empty b.
Contains(a, b) == \E i \in 1..(Len(a) - Len(b) + 1) : SubSeq(a, i, i + Len(b) - 1) = b

TermFreq(term, documentTokens) ==
    Cardinality({i \in 1..Len(documentTokens) :
        Contains(documentTokens[i], term) \/ Contains(term, documentTokens[i])})

\* idf * tf for one matching term, with k1 = 1.2 and b = 0.75:
\* tf = termFreq * 2.2 / (termFreq + 1.2 * (0.25 + 0.75 * (docLength / avgDocLength)))
\* where docLength / avgDocLength is an integer division.
TermScore(termFreq, docLength, avgDocLength) ==
    LET idf == LnRatio(100, Max2(1, termFreq))
        ratio == docLength \div avgDocLength
        tf == (termFreq * 22 * Scale) \div (termFreq * 10 + 3 + 9 * ratio)
    IN  (idf * tf) \div Scale

RECURSIVE SumTermScores(_, _)
SumTermScores(queryTerms, documentTokens) ==
    IF queryTerms = <<>> THEN 0
    ELSE LET termFreq == TermFreq(Head(queryTerms), documentTokens)
             rest == SumTermScores(Tail(queryTerms), documentTokens)
         IN  IF termFreq = 0 THEN rest
             ELSE TermScore(termFreq, Len(documentTokens), Len(documentTokens)) + rest

\* score / queryTerms.Count on doubles: 0.0 / 0 is NaN (the sum over no
\* terms is 0.0); Math.Min(1.0, x) returns NaN for NaN.
CalculateBM25Score(queryTerms, paper) ==
    LET documentTokens == TokenizeText(ToLowerInvariant(paper.title \o SP \o paper.abstract))
    IN  IF documentTokens = <<>> THEN D(0)
        ELSE IF Len(queryTerms) = 0 THEN NaN
        ELSE D(Min2(Scale, SumTermScores(queryTerms, documentTokens) \div Len(queryTerms)))

CalculateRecencyScore(paperYear, currentYear) ==
    IF paperYear = <<>> THEN D(0)
    ELSE D(ExpDecay(Max2(0, currentYear - paperYear[1])))

\* finalScore = 0.6 * keyword + 0.3 * semantic + 0.1 * recency, in units of
\* 1 / (10 * Scale).
FinalScore(keywordScore, semanticScore, recencyScore) ==
    IF keywordScore.nan \/ semanticScore.nan \/ recencyScore.nan THEN NaN
    ELSE D(6 * keywordScore.v + 3 * semanticScore.v + 1 * recencyScore.v)

ScoreOf(query, paper) ==
    FinalScore(CalculateBM25Score(TokenizeQuery(query), paper),
               D(0),
               CalculateRecencyScore(paper.year, CurrentYear))

\* Mutant: OrderBy instead of OrderByDescending (ascending, stable).
RECURSIVE OrderByDescending_Ascending(_)
OrderByDescending_Ascending(scored) ==
    IF scored = <<>> THEN <<>>
    ELSE LET front == OrderByDescending_Ascending(SubSeq(scored, 1, Len(scored) - 1))
             x == scored[Len(scored)]
             after == {i \in 1..Len(front) : CompareDouble(front[i].score, x.score) > 0}
             pos == IF after = {} THEN Len(front) + 1
                    ELSE CHOOSE i \in after : \A j \in after : i <= j
         IN  SubSeq(front, 1, pos - 1) \o <<x>> \o SubSeq(front, pos, Len(front))

\* Enumerable.OrderByDescending(x => x.score): a stable sort, so an element
\* goes behind every earlier element whose key is not smaller.
RECURSIVE OrderByDescending(_)
OrderByDescending(scored) ==
    IF scored = <<>> THEN <<>>
    ELSE LET front == OrderByDescending(SubSeq(scored, 1, Len(scored) - 1))
             x == scored[Len(scored)]
             smaller == {i \in 1..Len(front) : CompareDouble(front[i].score, x.score) < 0}
             pos == IF smaller = {} THEN Len(front) + 1
                    ELSE CHOOSE i \in smaller : \A j \in smaller : i <= j
         IN  SubSeq(front, 1, pos - 1) \o <<x>> \o SubSeq(front, pos, Len(front))

RankPapers(query, papers) ==
    IF papers = <<>> THEN papers
    ELSE LET rankedPapers == [i \in 1..Len(papers) |->
                                [paper |-> papers[i], score |-> ScoreOf(query, papers[i])]]
             sortedPapers == OrderByDescending(rankedPapers)
         IN  [i \in 1..Len(sortedPapers) |-> sortedPapers[i].paper]

----------------------------------------------------------------------------
(* Query texts *)

Q_deepnets == W_deep \o SP \o W_nets
Q_net == W_net
Q_ab == <<"a", " ", "b">>
Q_DeepPunct == <<"D", "e", "e", "p", ",", " ", "d", "e", "e", "p", "!">>
Q_nodes == T_node \o <<"s">>

DedupIdle ==
    /\ dPapers = <<>>
    /\ dOut = <<>>
    /\ dDone = FALSE

RankIdle ==
    /\ kQuery = <<>>
    /\ kPapers = <<>>
    /\ kOut = <<>>
    /\ kDone = FALSE

NoLookup == [n |-> 0, doi |-> Null, result |-> <<>>, called |-> FALSE,
             prior |-> <<>>, answered |-> <<>>]

EnrichIdle == [pc |-> "Idle", papers |-> <<>>, cancelled |-> FALSE,
               started |-> {}, completed |-> {}, info |-> <<>>,
               delays |-> 0, out |-> <<>>]

ResolverIdle ==
    /\ oaCache = <<>>
    /\ lookup = NoLookup
    /\ enrich = EnrichIdle

NoJoin == [pc |-> "Idle", query |-> <<>>, limit |-> 0, openAccessOnly |-> FALSE,
           responses |-> <<>>, tasks |-> <<>>, results |-> <<>>, order |-> <<>>,
           flatResults |-> <<>>, deduplicatedResults |-> <<>>, finalResults |-> <<>>]

JoinIdle == join = NoJoin

----------------------------------------------------------------------------
(* Search requests and their validation: SearchRequest, SearchController   *)

Request(query, yearFrom, yearTo, limit, openAccessOnly) ==
    [query |-> query, yearFrom |-> yearFrom, yearTo |-> yearTo, limit |-> limit,
     language |-> "en", openAccessOnly |-> openAccessOnly]

Q_short == <<"a", "b">>

R_Plain    == Request(Q_deepnets, <<>>, <<>>, 1, FALSE)
R_OaOnly   == Request(Q_deepnets, <<CurrentYear - 10>>, <<CurrentYear + 1>>, 2, TRUE)
R_YearSwap == Request(Q_deepnets, <<CurrentYear>>, <<CurrentYear - 1>>, 2, FALSE)
R_FromLow  == Request(Q_deepnets, <<1899>>, <<>>, 2, FALSE)
R_ToHigh   == Request(Q_deepnets, <<>>, <<CurrentYear + 2>>, 2, FALSE)
R_Limit0   == Request(Q_deepnets, <<>>, <<>>, 0, FALSE)
R_Limit101 == Request(Q_deepnets, <<>>, <<>>, 101, FALSE)
R_ShortQ   == Request(Q_short, <<>>, <<>>, 2, FALSE)

RequestSet == {R_Plain, R_OaOnly, R_YearSwap, R_FromLow, R_ToHigh,
               R_Limit0, R_Limit101, R_ShortQ}

\* The data annotations of SearchRequest, enforced by [ApiController] before
\* the action runs: [Required, StringLength(1000, MinimumLength = 3)] Query,
\* [Range(1, 100)] Limit, [StringLength(5)] Language.
ModelStateIsValid(request) ==
    /\ Len(request.query) >= 3
    /\ Len(request.query) <= 1000
    /\ request.limit >= 1
    /\ request.limit <= 100

\* Mutant: the upper bound of YearTo is not checked.
YearsAreValid_NoYearToUpperBound(request) ==
    /\ ~(request.yearFrom # <<>> /\ request.yearTo # <<>>
            /\ request.yearFrom[1] > request.yearTo[1])
    /\ ~(request.yearFrom # <<>>
            /\ (request.yearFrom[1] < 1900 \/ request.yearFrom[1] > CurrentYear + 1))
    /\ ~(request.yearTo # <<>> /\ request.yearTo[1] < 1900)

\* The three year checks of SearchController.SearchAsync.
YearsAreValid(request) ==
    /\ ~(request.yearFrom # <<>> /\ request.yearTo # <<>>
            /\ request.yearFrom[1] > request.yearTo[1])
    /\ ~(request.yearFrom # <<>>
            /\ (request.yearFrom[1] < 1900 \/ request.yearFrom[1] > CurrentYear + 1))
    /\ ~(request.yearTo # <<>>
            /\ (request.yearTo[1] < 1900 \/ request.yearTo[1] > CurrentYear + 1))

----------------------------------------------------------------------------
(* Source clients: CrossrefClient, ArxivClient, SemanticScholarClient      *)

\* _searchClients, in registration order (Program.cs).
Clients == <<"crossref", "arxiv", "semanticscholar">>
ClientSet == Range(Clients)

\* What each catalog holds for the queries of RequestSet, best hit first.
SourceHits == [c \in ClientSet |->
    CASE c = "crossref" -> <<P6, P1>>
      [] c = "arxiv" -> <<P3, P4>>
      [] c = "semanticscholar" -> <<P5, P2>>]

Take(s, n) == SubSeq(s, 1, Min2(n, Len(s)))

\* The catalog answers with at most `limit` rows (rows= / max_results= / limit=).
NetworkResponse(client, request) == Take(SourceHits[client], request.limit)

CacheKey(client, request) ==
    <<client, request.query, request.yearFrom, request.yearTo, request.limit>>

\* JsonSerializer.Serialize(papers): the text holds the papers' property
\* values, not the identity of the objects.
Serialize(papers) ==
    [i \in 1..Len(papers) |->
        [source |-> papers[i].source, title |-> papers[i].title,
         abstract |-> papers[i].abstract, doi |-> papers[i].doi,
         pdfUrl |-> papers[i].pdfUrl, year |-> papers[i].year,
         isOpenAccess |-> papers[i].isOpenAccess, authors |-> papers[i].authors]]

\* The identity of the i-th object a deserialization creates.  (Objects of
\* different lists differ in Source.)
NewObject(i) == 100 + i

\* JsonSerializer.Deserialize<List<ExternalPaper>>(cachedResult): new objects
\* with the property values of the text.
Deserialize(json) ==
    [i \in 1..Len(json) |->
        Paper(NewObject(i), json[i].source, json[i].title, json[i].abstract,
              json[i].doi, json[i].pdfUrl, json[i].year, json[i].isOpenAccess,
              json[i].authors)]

\* Mutant: the cache is not read, the network is called every time.
ClientSearch_CacheIgnored(cached, networkOk, response) ==
    IF networkOk
    THEN [threw |-> FALSE, papers |-> response, store |-> TRUE, called |-> TRUE]
    ELSE [threw |-> FALSE, papers |-> <<>>, store |-> FALSE, called |-> TRUE]

\* The client's SearchAsync, whose whole body is in try/catch: a cache hit is
\* deserialized and returned; otherwise the network answer, or an exception
\* turned into an empty list.  `threw` tells whether an exception leaves the
\* call, `called` whether the HTTP request was made, `store` whether the
\* cache entry is written.
ClientSearch(cached, networkOk, response) ==
    IF cached # <<>>
    THEN [threw |-> FALSE, papers |-> Deserialize(cached[1]), store |-> FALSE,
          called |-> FALSE]
    ELSE IF networkOk
    THEN [threw |-> FALSE, papers |-> response, store |-> TRUE, called |-> TRUE]
    ELSE [threw |-> FALSE, papers |-> <<>>, store |-> FALSE, called |-> TRUE]

\* Mutant: a failing source is not isolated, its exception leaves the task.
SearchClientSafely_Unprotected(cached, networkOk, response) ==
    IF cached # <<>>
    THEN [threw |-> FALSE, papers |-> Deserialize(cached[1]), store |-> FALSE,
          called |-> FALSE]
    ELSE IF networkOk
    THEN [threw |-> FALSE, papers |-> response, store |-> TRUE, called |-> TRUE]
    ELSE [threw |-> TRUE, papers |-> <<>>, store |-> FALSE, called |-> TRUE]

\* SearchService.SearchClientSafelyAsync: the client call, with any exception
\* that leaves it turned into an empty list.
SearchClientSafely(cached, networkOk, response) ==
    LET res == ClientSearch(cached, networkOk, response)
    IN  IF res.threw
        THEN [threw |-> FALSE, papers |-> <<>>, store |-> FALSE, called |-> res.called]
        ELSE res

\* allResults.SelectMany(results => results), in the order of _searchClients.
RECURSIVE SelectMany(_, _)
SelectMany(results, i) ==
    IF i > Len(Clients) THEN <<>>
    ELSE results[Clients[i]] \o SelectMany(results, i + 1)

----------------------------------------------------------------------------
(* SearchService.SearchAsync, stage by stage                               *)

Reqs == {"r1", "r2"}
ArrivesBefore(a, b) == a = "r1" /\ b = "r2"

NoRequest == Request(<<>>, <<>>, <<>>, 0, FALSE)
NoCounts == [source \in {} |-> 0]
NoResponse == [status |-> 0, results |-> <<>>, totalResults |-> 0, filteredResults |-> 0,
               sourceCounts |-> NoCounts]

Pending == "pending"
Running == "running"

Idle == [pc |-> "New", request |-> NoRequest, cancelled |-> FALSE,
         topic |-> <<>>, created |-> {},
         tasks |-> [c \in ClientSet |-> Pending],
         outcome |-> [c \in ClientSet |-> "none"],
         results |-> [c \in ClientSet |-> <<>>],
         invoked |-> {},
         flatResults |-> <<>>, deduplicatedResults |-> <<>>, filtered |-> <<>>,
         rankedResults |-> <<>>, finalResults |-> <<>>,
         error |-> "none", response |-> NoResponse]

Terminal == {"Rejected", "Failed", "Done"}

\* The stages that run without awaiting anything.  Such a stretch of code
\* touches only its own request's locals, so it is run to its next await
\* before a step of another request is taken.
Synchronous == {"FanOut", "Deduplicate", "Filter", "Rank", "Truncate"}

Scheduled(r) == \A other \in Reqs \ {r} : search[other].pc \notin Synchronous

PipelineIdle ==
    /\ search = [r \in Reqs |-> Idle]
    /\ topics = {}
    /\ searchResults = {}
    /\ cache = <<>>

Init ==
    /\ PipelineIdle
    /\ ResolverIdle
    /\ JoinIdle
    /\ DedupIdle
    /\ RankIdle

\* When SearchAsync returns or throws, its locals are gone: what is left of
\* the request is the response, and the record of what it did.
Finished(s, pc, why, response) ==
    [Idle EXCEPT !.pc = pc, !.request = s.request, !.cancelled = s.cancelled,
                 !.created = s.created, !.invoked = s.invoked,
                 !.outcome = IF pc = "Done" THEN s.outcome ELSE @,
                 !.error = why, !.response = response]

\* The request fails with an exception: the controller answers 500.
Fail(r, why) ==
    search' = [search EXCEPT
                 ![r] = Finished(@, "Failed", why, [NoResponse EXCEPT !.status = 500])]

\* Mutant: a failed write of the result rows is swallowed and the results
\* are returned all the same.
StoreFailure_Swallowed(r) ==
    IF search[r].pc = "Persist"
    THEN search' = [search EXCEPT
            ![r] = Finished(@, "Done", "store",
                       [NoResponse EXCEPT !.status = 200,
                                          !.filteredResults = Len(search[r].finalResults),
                                          !.totalResults = Len(search[r].flatResults)])]
    ELSE Fail(r, "store")

\* SaveChangesAsync throws: SearchAsync logs and rethrows, the controller's
\* catch (Exception) answers 500.
StoreFailure(r) == Fail(r, "store")

\* SearchController.SearchAsync up to the call of the search service.
\* Requests are numbered in their order of arrival.
Receive(r) ==
    /\ Scheduled(r)
    /\ search[r].pc = "New"
    /\ \A earlier \in Reqs : ArrivesBefore(earlier, r) => search[earlier].pc # "New"
    /\ \E request \in RequestSet :
          IF ModelStateIsValid(request) /\ YearsAreValid(request)
          THEN search' = [search EXCEPT ![r].pc = "TopicLookup", ![r].request = request]
          ELSE search' = [search EXCEPT ![r].pc = "Rejected", ![r].request = request,
                                        ![r].error = "validation",
                                        ![r].response = [NoResponse EXCEPT !.status = 400]]
    /\ UNCHANGED <<topics, searchResults, cache>>
    /\ UNCHANGED <<dedupVars, rankVars, resolverVars, joinVars>>

\* The points of SearchAsync at which the token is looked at next: a
\* cancellation during a stage that does not look at it (merging, the
\* deduplication, filtering, ranking, truncation) is seen at the next of these.
TokenObserved == {"TopicLookup", "TopicCreate", "Join", "Enrich", "Persist"}

\* The client disconnects: the request's CancellationToken is cancelled.
Cancel(r) ==
    /\ Scheduled(r)
    /\ search[r].pc \in TokenObserved
    /\ ~search[r].cancelled
    /\ search' = [search EXCEPT ![r].cancelled = TRUE]
    /\ UNCHANGED <<topics, searchResults, cache>>
    /\ UNCHANGED <<dedupVars, rankVars, resolverVars, joinVars>>

\* Guid.NewGuid(): a fresh identifier, named here after the request that
\* makes the entity and the entity's position among those it makes.
NewGuid(r, n) == <<r, n>>

Signature(x) == <<x.query, x.language, x.yearFrom, x.yearTo>>

\* GetOrCreateTopicAsync, first half: FirstOrDefaultAsync over Topics.
TopicLookup(r) ==
    /\ Scheduled(r)
    /\ search[r].pc = "TopicLookup"
    /\ IF search[r].cancelled
       THEN Fail(r, "cancelled")
       ELSE LET existing == {t \in topics : Signature(t) = Signature(search[r].request)}
            IN  IF existing # {}
                THEN \E t \in existing :
                        search' = [search EXCEPT ![r].pc = "FanOut", ![r].topic = <<t.id>>]
                ELSE search' = [search EXCEPT ![r].pc = "TopicCreate"]
    /\ UNCHANGED <<topics, searchResults, cache>>
    /\ UNCHANGED <<dedupVars, rankVars, resolverVars, joinVars>>

\* GetOrCreateTopicAsync, second half: Topics.Add and SaveChangesAsync.
TopicCreate(r) ==
    /\ Scheduled(r)
    /\ search[r].pc = "TopicCreate"
    /\ \E storeOk \in BOOLEAN :
          IF search[r].cancelled \/ ~storeOk
          THEN /\ IF search[r].cancelled THEN Fail(r, "cancelled") ELSE StoreFailure(r)
               /\ UNCHANGED topics
          ELSE /\ topics' = topics \cup
                      {[id |-> NewGuid(r, 0), query |-> search[r].request.query,
                        language |-> search[r].request.language,
                        yearFrom |-> search[r].request.yearFrom,
                        yearTo |-> search[r].request.yearTo]}
               /\ search' = [search EXCEPT ![r].pc = "FanOut",
                                           ![r].topic = <<NewGuid(r, 0)>>,
                                           ![r].created = @ \cup {NewGuid(r, 0)}]
    /\ UNCHANGED <<searchResults, cache>>
    /\ UNCHANGED <<dedupVars, rankVars, resolverVars, joinVars>>

\* _searchClients.Select(SearchClientSafelyAsync).ToArray(): every client's
\* search is started; the request then awaits Task.WhenAll.
FanOut(r) ==
    /\ Scheduled(r)
    /\ search[r].pc = "FanOut"
    /\ search' = [search EXCEPT ![r].pc = "Join",
                                ![r].tasks = [c \in ClientSet |-> Running],
                                ![r].invoked = ClientSet]
    /\ UNCHANGED <<topics, searchResults, cache>>
    /\ UNCHANGED <<dedupVars, rankVars, resolverVars, joinVars>>

\* Whether reading the catalog's body throws.  Crossref and Semantic Scholar
\* deserialize it with JsonSerializer, which throws on a body that does not
\* parse; ParseArxivResponse catches that exception itself.
ParseThrows(c, parsable) == ~parsable /\ c # "arxiv"

\* The papers read from the body: ParseArxivResponse returns the list it has
\* built so far, which is empty when XDocument.Parse threw.
ParseResponse(c, parsable, papers) == IF parsable THEN papers ELSE <<>>

\* One source task runs to completion.  A cancelled token makes the cache or
\* HTTP call throw, which the client turns into an empty list like any failure.
\* The network call fails (exception, non-success status) or answers with a
\* body that parses or not.
SourceComplete(r, c) ==
    /\ Scheduled(r)
    /\ search[r].pc = "Join"
    /\ search[r].tasks[c] = Running
    /\ \E networkOk \in BOOLEAN, parsable \in BOOLEAN :
          LET key == CacheKey(c, search[r].request)
              cached == IF key \in DOMAIN cache THEN <<cache[key]>> ELSE <<>>
              res == IF search[r].cancelled
                     THEN SearchClientSafely(<<>>, FALSE, <<>>)
                     ELSE SearchClientSafely(cached, networkOk /\ ~ParseThrows(c, parsable),
                                             ParseResponse(c, parsable,
                                                 NetworkResponse(c, search[r].request)))
          IN  /\ (cached # <<>> \/ search[r].cancelled) => networkOk
              /\ (cached # <<>> \/ search[r].cancelled \/ ~networkOk) => parsable
              /\ search' = [search EXCEPT
                    ![r].tasks[c] = IF res.threw THEN "faulted" ELSE "completed",
                    ![r].outcome[c] = IF search[r].cancelled THEN "failed"
                                      ELSE IF ~res.called THEN "cached"
                                      ELSE IF res.store /\ parsable THEN "ok" ELSE "failed",
                    ![r].results[c] = res.papers]
              /\ cache' = IF res.store THEN (key :> Serialize(res.papers)) @@ cache
                          ELSE cache
    /\ UNCHANGED <<topics, searchResults>>
    /\ UNCHANGED <<dedupVars, rankVars, resolverVars, joinVars>>

\* Mutant: the merge does not wait for the source tasks that still run.
Join_Eager(r) ==
    /\ Scheduled(r)
    /\ search[r].pc = "Join"
    /\ search' = [search EXCEPT ![r].pc = "Deduplicate",
                                ![r].flatResults = SelectMany(search[r].results, 1)]
    /\ UNCHANGED <<topics, searchResults, cache>>
    /\ UNCHANGED <<dedupVars, rankVars, resolverVars, joinVars>>

\* await Task.WhenAll(searchTasks) returns once every task has finished, and
\* rethrows if a task faulted; then the lists are merged.
Join(r) ==
    /\ Scheduled(r)
    /\ search[r].pc = "Join"
    /\ \A c \in ClientSet : search[r].tasks[c] \in {"completed", "faulted"}
    /\ IF \E c \in ClientSet : search[r].tasks[c] = "faulted"
       THEN Fail(r, "source")
       ELSE search' = [search EXCEPT ![r].pc = "Deduplicate",
                                     ![r].flatResults = SelectMany(search[r].results, 1)]
    /\ UNCHANGED <<topics, searchResults, cache>>
    /\ UNCHANGED <<dedupVars, rankVars, resolverVars, joinVars>>

\* DeduplicatePapersAsync over the merged list.
StageDeduplicate(r) ==
    /\ Scheduled(r)
    /\ search[r].pc = "Deduplicate"
    /\ search' = [search EXCEPT ![r].pc = "Enrich",
                    ![r].deduplicatedResults = DeduplicatePapers(search[r].flatResults)]
    /\ UNCHANGED <<topics, searchResults, cache>>
    /\ UNCHANGED <<dedupVars, rankVars, resolverVars, joinVars>>

\* EnhanceWithOpenAccessAsync: the lambda assigns the enriched copy
\* (`paper = paper with { ... }`) to its own parameter, so the elements of the
\* list are what they were, whatever the lookups return.
EnhanceWithOpenAccess(papers) == papers

\* papers.Where(p => !IsNullOrEmpty(p.Doi)).Chunk(batchSize) has a batch.
HasLookupBatch(papers) == \E i \in 1..Len(papers) : ~IsNullOrEmpty(papers[i].doi)

\* EnhanceWithOpenAccessAsync: after each batch, Task.Delay(100, token) throws
\* if the token is cancelled; without a DOI-bearing paper there is no batch.
Enrich(r) ==
    /\ Scheduled(r)
    /\ search[r].pc = "Enrich"
    /\ IF search[r].cancelled /\ HasLookupBatch(search[r].deduplicatedResults)
       THEN Fail(r, "cancelled")
       ELSE search' = [search EXCEPT ![r].pc = "Filter",
                         ![r].deduplicatedResults = EnhanceWithOpenAccess(@)]
    /\ UNCHANGED <<topics, searchResults, cache>>
    /\ UNCHANGED <<dedupVars, rankVars, resolverVars, joinVars>>

\* Mutant: the filter is never applied.
FilterOpenAccess_Never(openAccessOnly, papers) == papers

\* if (request.OpenAccessOnly) results = results.Where(p => p.IsOpenAccess)
FilterOpenAccess(openAccessOnly, papers) ==
    IF openAccessOnly THEN SelectSeq(papers, LAMBDA p : p.isOpenAccess) ELSE papers

Filter(r) ==
    /\ Scheduled(r)
    /\ search[r].pc = "Filter"
    /\ search' = [search EXCEPT ![r].pc = "Rank",
                    ![r].filtered = FilterOpenAccess(search[r].request.openAccessOnly,
                                                     search[r].deduplicatedResults)]
    /\ UNCHANGED <<topics, searchResults, cache>>
    /\ UNCHANGED <<dedupVars, rankVars, resolverVars, joinVars>>

\* _rankingService.RankPapersAsync(request.Query, deduplicatedResults)
Rank(r) ==
    /\ Scheduled(r)
    /\ search[r].pc = "Rank"
    /\ search' = [search EXCEPT ![r].pc = "Truncate",
                    ![r].rankedResults = RankPapers(search[r].request.query,
                                                    search[r].filtered)]
    /\ UNCHANGED <<topics, searchResults, cache>>
    /\ UNCHANGED <<dedupVars, rankVars, resolverVars, joinVars>>

\* Mutant: TakeLast instead of Take.
TakeTop_Last(rankedResults, limit) ==
    SubSeq(rankedResults, Max2(1, Len(rankedResults) - limit + 1), Len(rankedResults))

\* rankedResults.Take(request.Limit).ToList()
TakeTop(rankedResults, limit) == Take(rankedResults, limit)

Truncate(r) ==
    /\ Scheduled(r)
    /\ search[r].pc = "Truncate"
    /\ search' = [search EXCEPT ![r].pc = "Persist",
                    ![r].finalResults = TakeTop(search[r].rankedResults,
                                                search[r].request.limit)]
    /\ UNCHANGED <<topics, searchResults, cache>>
    /\ UNCHANGED <<dedupVars, rankVars, resolverVars, joinVars>>

\* The rows SaveSearchResultsAsync builds: one per paper, Score = 0.0.
NewRows(r, topicId, papers) ==
    [i \in 1..Len(papers) |->
        [id |-> NewGuid(r, i), topicId |-> topicId, ref |-> papers[i].ref,
         doi |-> papers[i].doi, isOpenAccess |-> papers[i].isOpenAccess,
         score |-> D(0), by |-> r]]

\* The unique index on search_results.Doi (filter: doi IS NOT NULL) rejects
\* the insert.
ViolatesDoiIndex(rows, table) ==
    \/ \E i \in 1..Len(rows) :
          rows[i].doi # Null /\ \E old \in table : old.doi = rows[i].doi
    \/ \E i, j \in 1..Len(rows) :
          i # j /\ rows[i].doi # Null /\ rows[i].doi = rows[j].doi

\* flatResults.GroupBy(p => p.Source).ToDictionary(g => g.Key, g => g.Count())
SourceCounts(flatResults) ==
    [source \in {flatResults[i].source : i \in 1..Len(flatResults)} |->
        Cardinality({i \in 1..Len(flatResults) : flatResults[i].source = source})]

\* Mutant: the metadata counts the papers left after the pipeline.
BuildResponse_CountsReturned(savedResults, flatResults, finalResults) ==
    [status |-> 200, results |-> savedResults,
     totalResults |-> Len(finalResults),
     filteredResults |-> Len(finalResults),
     sourceCounts |-> SourceCounts(flatResults)]

\* The SearchResponse of a search that went through, answered with 200.
BuildResponse(savedResults, flatResults, finalResults) ==
    [status |-> 200, results |-> savedResults,
     totalResults |-> Len(flatResults),
     filteredResults |-> Len(finalResults),
     sourceCounts |-> SourceCounts(flatResults)]

\* Mutant: the Topic's earlier rows are replaced by the new ones.
InsertRows_ReplacingTopic(table, rows) ==
    {old \in table : \A i \in 1..Len(rows) : old.topicId # rows[i].topicId} \cup Range(rows)

\* _context.SearchResults.AddRange(searchResults) and SaveChangesAsync: every
\* entity is inserted as a new row.
InsertRows(table, rows) == table \cup Range(rows)

\* SaveSearchResultsAsync (AddRange and one SaveChangesAsync) and the response.
\* SaveChangesAsync with nothing to save may return without looking at the token.
Persist(r) ==
    /\ Scheduled(r)
    /\ search[r].pc = "Persist"
    /\ \E storeOk \in BOOLEAN, tokenSeen \in BOOLEAN :
          LET rows == NewRows(r, search[r].topic[1], search[r].finalResults)
              cancelledHere == search[r].cancelled /\ (tokenSeen \/ Len(rows) > 0)
          IN  /\ (~search[r].cancelled \/ Len(rows) > 0) => tokenSeen
              /\ IF cancelledHere
                 THEN /\ storeOk
                      /\ Fail(r, "cancelled")
                      /\ UNCHANGED searchResults
                 ELSE IF ~storeOk \/ ViolatesDoiIndex(rows, searchResults)
                 THEN /\ StoreFailure(r)
                      /\ UNCHANGED searchResults
                 ELSE /\ searchResults' = InsertRows(searchResults, rows)
                      /\ search' = [search EXCEPT
                            ![r] = Finished(
                                [@ EXCEPT !.created = @ \cup {rows[i].id : i \in 1..Len(rows)}],
                                "Done", "none",
                                BuildResponse(rows, search[r].flatResults,
                                              search[r].finalResults))]
    /\ UNCHANGED <<topics, cache>>
    /\ UNCHANGED <<dedupVars, rankVars, resolverVars, joinVars>>

Next ==
    \E r \in Reqs :
        \/ Receive(r)
        \/ Cancel(r)
        \/ TopicLookup(r)
        \/ TopicCreate(r)
        \/ FanOut(r)
        \/ \E c \in ClientSet : SourceComplete(r, c)
        \/ Join(r)
        \/ StageDeduplicate(r)
        \/ Enrich(r)
        \/ Filter(r)
        \/ Rank(r)
        \/ Truncate(r)
        \/ Persist(r)

Spec == Init /\ [][Next]_vars

----------------------------------------------------------------------------
(* Claims about the search pipeline (Spec)                                 *)

Live(r) == search[r].pc \notin (Terminal \cup {"New"})
Merged(r) == search[r].pc \in {"Deduplicate", "Enrich", "Filter", "Rank", "Truncate", "Persist"}

RECURSIVE SumLen(_, _)
SumLen(results, S) ==
    IF S = {} THEN 0
    ELSE LET c == CHOOSE x \in S : TRUE
         IN  Len(results[c]) + SumLen(results, S \ {c})

\* C3: a failing source contributes an empty list and never fails the search:
\* no task faults, no request ends with a source error, the merged list holds
\* exactly the papers of the sources that answered, and a request whose store
\* writes succeed ends with a 200 response.
C3_SourceFailureIsolated ==
    \A r \in Reqs :
        /\ search[r].error # "source"
        /\ \A c \in ClientSet :
              /\ search[r].tasks[c] # "faulted"
              /\ (Live(r) /\ search[r].outcome[c] = "failed") => search[r].results[c] = <<>>
              /\ (Live(r) /\ search[r].outcome[c] = "ok")
                    => search[r].results[c] = NetworkResponse(c, search[r].request)
        /\ Merged(r) =>
              /\ Len(search[r].flatResults) = SumLen(search[r].results, ClientSet)
              /\ \A c \in ClientSet :
                    Range(search[r].results[c]) \subseteq Range(search[r].flatResults)
        /\ search[r].pc = "Done" => search[r].response.status = 200

\* C3 witness: a search is done with a 200 response and results although one
\* of its sources failed.
C3_Witness ==
    \E r \in Reqs :
        /\ search[r].pc = "Done"
        /\ search[r].response.status = 200
        /\ search[r].response.results # <<>>
        /\ \E c \in ClientSet : search[r].outcome[c] = "failed"
        /\ \E c \in ClientSet : search[r].outcome[c] = "ok"

\* The requests C4 speaks of.
YearOutOfRange(year) == year # <<>> /\ (year[1] < 1900 \/ year[1] > CurrentYear + 1)

InvalidRequest(request) ==
    \/ (request.yearFrom # <<>> /\ request.yearTo # <<>>
          /\ request.yearFrom[1] > request.yearTo[1])
    \/ YearOutOfRange(request.yearFrom)
    \/ YearOutOfRange(request.yearTo)
    \/ request.limit < 1
    \/ request.limit > 100
    \/ Len(request.query) < 3

\* C4: an invalid request is rejected with a validation error (400) and no
\* source client is invoked (nor any row written) for it.
C4_InvalidRejectedBeforeFanOut ==
    \A r \in Reqs :
        (search[r].pc # "New" /\ InvalidRequest(search[r].request)) =>
            /\ search[r].pc = "Rejected"
            /\ search[r].error = "validation"
            /\ search[r].response.status = 400
            /\ search[r].invoked = {}
            /\ search[r].created = {}

\* C4 witness: an invalid request of each kind has been rejected, while a
\* valid request went on to its sources.
C4_Witness ==
    /\ search["r1"].pc = "Rejected"
    /\ YearOutOfRange(search["r1"].request.yearTo)
    /\ search["r2"].invoked = ClientSet

\* C5: a search that is cancelled before Persist completes leaves no row it
\* wrote in the store, neither a Topic row nor a result row.
C5_CancelledLeavesNoRows ==
    \A r \in Reqs :
        (search[r].cancelled /\ search[r].pc \in Terminal) =>
            /\ ~\E t \in topics : t.id \in search[r].created
            /\ ~\E row \in searchResults : row.id \in search[r].created

\* C6: at most one Topic row exists per (query, language, yearFrom, yearTo).
C6_OneTopicPerSignature ==
    \A t, u \in topics : Signature(t) = Signature(u) => t = u

\* C7: the returned results are the first min(limit, n) papers of the ranked
\* list, at most `limit` of them, and no paper left out has a strictly higher
\* score than a returned one.
C7_TruncationAfterRanking ==
    \A r \in Reqs :
        search[r].pc = "Persist" =>
            LET ranked == search[r].rankedResults
                final == search[r].finalResults
                limit == search[r].request.limit
                n == Len(ranked)
                score(p) == ScoreOf(search[r].request.query, p)
            IN  /\ Len(final) = Min2(limit, n)
                /\ \A i \in 1..Len(final) : final[i] = ranked[i]
                /\ Len(final) <= limit
                /\ Range(ranked) = Range(search[r].filtered)
                /\ \A i \in 1..Len(final) : \A j \in (Len(final) + 1)..n :
                      ~LessDouble(score(final[i]), score(ranked[j]))

\* C7 witness: more candidates than the limit, and a candidate with a strictly
\* lower score than a returned paper was left out.
C7_Witness ==
    \E r \in Reqs :
        /\ search[r].pc = "Persist"
        /\ Len(search[r].rankedResults) > search[r].request.limit
        /\ Len(search[r].finalResults) = search[r].request.limit
        /\ \E p \in Range(search[r].rankedResults) \ Range(search[r].finalResults) :
              \E q \in Range(search[r].finalResults) :
                  LessDouble(ScoreOf(search[r].request.query, p),
                             ScoreOf(search[r].request.query, q))

RECURSIVE SumCounts(_, _)
SumCounts(counts, S) ==
    IF S = {} THEN 0
    ELSE LET c == CHOOSE x \in S : TRUE
         IN  counts[c] + SumCounts(counts, S \ {c})

\* The number of raw papers a finished search got from a source.
RawCount(r, c) ==
    CASE search[r].outcome[c] = "ok" -> Len(NetworkResponse(c, search[r].request))
      [] search[r].outcome[c] = "cached" -> Len(cache[CacheKey(c, search[r].request)])
      [] OTHER -> 0

\* C16: in a successful response totalResults is the number of raw papers of
\* all sources before deduplication, which is the sum of sourceCounts, and
\* filteredResults is the number of results returned.
C16_MetadataCounts ==
    \A r \in Reqs :
        search[r].pc = "Done" =>
            LET response == search[r].response
            IN  /\ response.totalResults
                      = SumCounts(response.sourceCounts, DOMAIN response.sourceCounts)
                /\ response.totalResults
                      = RawCount(r, "crossref") + RawCount(r, "arxiv")
                          + RawCount(r, "semanticscholar")
                /\ response.filteredResults = Len(response.results)
                /\ response.filteredResults <= search[r].request.limit

\* C16 witness: a successful response that counts more raw papers, from more
\* than one source, than it returns results.
C16_Witness ==
    \E r \in Reqs :
        /\ search[r].pc = "Done"
        /\ search[r].response.filteredResults > 0
        /\ search[r].response.totalResults > search[r].response.filteredResults
        /\ Cardinality(DOMAIN search[r].response.sourceCounts) > 1

\* C17: persistence is append-only.  No step updates or deletes a Topic row
\* or a result row, and the step that completes a search inserts exactly one
\* new row per returned result, each under the search's Topic.
C17_AppendOnly ==
    [][/\ topics \subseteq topics'
       /\ searchResults \subseteq searchResults'
       /\ \A r \in Reqs :
             (search[r].pc = "Persist" /\ search'[r].pc = "Done") =>
                LET returned == search'[r].response.results
                    inserted == searchResults' \ searchResults
                IN  /\ inserted = Range(returned)
                    /\ Cardinality(inserted) = Len(returned)
                    /\ Len(returned) = Len(search[r].finalResults)
                    /\ \A i \in 1..Len(returned) :
                          /\ returned[i].topicId = search[r].topic[1]
                          /\ returned[i].ref = search[r].finalResults[i].ref
                    /\ \E t \in topics : t.id = search[r].topic[1]]_vars

\* C17 witness: two searches of the same Topic have completed, each with
\* results, and the rows of both are in the store.
C17_Witness ==
    /\ \A r \in Reqs :
          /\ search[r].pc = "Done"
          /\ search[r].response.results # <<>>
          /\ Range(search[r].response.results) \subseteq searchResults
    /\ search["r1"].response.results[1].topicId = search["r2"].response.results[1].topicId
    /\ Cardinality(topics) = 1

\* C18: a failed store write fails the search: the request ends with a 500
\* and no result list; a result list is only ever returned with a 200, its
\* rows written to the store under a stored Topic.
C18_StoreFailureFatal ==
    \A r \in Reqs :
        LET response == search[r].response
        IN  /\ search[r].error = "store" =>
                  /\ search[r].pc = "Failed"
                  /\ response.status = 500
                  /\ response.results = <<>>
            /\ response.results # <<>> =>
                  /\ response.status = 200
                  /\ search[r].error = "none"
                  /\ Range(response.results) \subseteq searchResults
                  /\ \A i \in 1..Len(response.results) :
                        \E t \in topics : t.id = response.results[i].topicId

\* C18 witness: the write of the result rows failed after every source had
\* been queried: the request ended with a 500 and none of its rows is stored.
C18_Witness ==
    \E r \in Reqs :
        /\ search[r].error = "store"
        /\ search[r].invoked = ClientSet
        /\ search[r].response.status = 500
        /\ ~\E row \in searchResults : row.by = r

\* C19: when a source task completes for a key whose cache entry has been
\* written (entries live for 24 hours, longer than the behaviours here), it
\* returns the cached list with its content unmodified, makes no network
\* call and leaves the cache as it is.
C19_CacheHitServed ==
    [][\A r \in Reqs : \A c \in ClientSet :
          LET key == CacheKey(c, search[r].request)
          IN  (/\ search[r].tasks[c] = Running
               /\ search'[r].tasks[c] # Running
               /\ ~search[r].cancelled
               /\ key \in DOMAIN cache)
              => /\ search'[r].outcome[c] = "cached"
                 /\ Serialize(search'[r].results[c]) = cache[key]
                 /\ cache' = cache]_vars

\* C19 witness: a later search was served a non-empty list from the cache
\* entry an earlier search wrote.
C19_Witness ==
    /\ search["r1"].pc = "Done"
    /\ search["r1"].outcome["crossref"] = "ok"
    /\ search["r2"].outcome["crossref"] = "cached"
    /\ search["r2"].results["crossref"] # <<>>
    /\ search["r2"].request = search["r1"].request

\* The steps from one position of SearchAsync to the next.
StageOrder ==
    {<<"New", "TopicLookup">>, <<"New", "Rejected">>,
     <<"TopicLookup", "TopicCreate">>, <<"TopicLookup", "FanOut">>,
     <<"TopicCreate", "FanOut">>, <<"FanOut", "Join">>, <<"Join", "Deduplicate">>,
     <<"Deduplicate", "Enrich">>, <<"Enrich", "Filter">>, <<"Filter", "Rank">>,
     <<"Rank", "Truncate">>, <<"Truncate", "Persist">>, <<"Persist", "Done">>}
        \cup {<<pc, "Failed">> : pc \in {"TopicLookup", "TopicCreate", "Join", "Enrich", "Persist"}}

\* C20: a request runs FanOut, Deduplicate, Enrich, Filter, Rank, Truncate,
\* Persist in this order: Deduplicate starts only when every source task has
\* completed, and every stage works on what the stage before it produced.
C20_StagesInOrder ==
    [][\A r \in Reqs :
          /\ search'[r].pc # search[r].pc => <<search[r].pc, search'[r].pc>> \in StageOrder
          /\ search'[r].pc \in {"Deduplicate", "Enrich", "Filter", "Rank", "Truncate", "Persist"}
                => \A c \in ClientSet : search'[r].tasks[c] = "completed"
          /\ search'[r].pc = "Persist" =>
                LET s == search'[r]
                IN  /\ s.flatResults = SelectMany(s.results, 1)
                    /\ s.deduplicatedResults = DeduplicatePapers(s.flatResults)
                    /\ s.filtered = FilterOpenAccess(s.request.openAccessOnly,
                                                     s.deduplicatedResults)
                    /\ s.rankedResults = RankPapers(s.request.query, s.filtered)
                    /\ s.finalResults = TakeTop(s.rankedResults, s.request.limit)]_vars

\* C20 witness: a request stands at Persist with every source task completed,
\* after a deduplication that merged papers and a filter that removed some,
\* with results left to store.
C20_Witness ==
    \E r \in Reqs :
        /\ search[r].pc = "Persist"
        /\ \A c \in ClientSet : search[r].tasks[c] = "completed"
        /\ Len(search[r].deduplicatedResults) < Len(search[r].flatResults)
        /\ Len(search[r].filtered) < Len(search[r].deduplicatedResults)
        /\ search[r].finalResults # <<>>

\* C9: with openAccessOnly every paper after the Filter stage, and every
\* result of the response, is open access; without it the stage removes nothing.
C9_FilterCorrect ==
    \A r \in Reqs :
        /\ search[r].pc \in {"Rank", "Truncate", "Persist"} =>
              IF search[r].request.openAccessOnly
              THEN \A p \in Range(search[r].filtered) \cup Range(search[r].rankedResults)
                            \cup Range(search[r].finalResults) : p.isOpenAccess
              ELSE search[r].filtered = search[r].deduplicatedResults
        /\ (search[r].pc = "Done" /\ search[r].request.openAccessOnly) =>
              \A i \in 1..Len(search[r].response.results) :
                  search[r].response.results[i].isOpenAccess

\* C9 witness: an openAccessOnly search whose filter removed a paper and that
\* still has results; and a search without the flag that kept a closed paper.
C9_Witness ==
    /\ \E r \in Reqs :
          /\ search[r].pc = "Persist"
          /\ search[r].request.openAccessOnly
          /\ search[r].finalResults # <<>>
          /\ Len(search[r].filtered) < Len(search[r].deduplicatedResults)
    /\ \E r \in Reqs :
          /\ search[r].pc = "Persist"
          /\ ~search[r].request.openAccessOnly
          /\ \E p \in Range(search[r].finalResults) : ~p.isOpenAccess

----------------------------------------------------------------------------
(* Specification of the Deduplicator alone: any merged list of at most     *)
(* MaxDedupLen distinct paper objects is deduplicated.                      *)

InitDedup ==
    /\ dPapers \in InjSeqs(Catalog, MaxDedupLen)
    /\ dOut = <<>>
    /\ dDone = FALSE
    /\ RankIdle
    /\ PipelineIdle
    /\ ResolverIdle
    /\ JoinIdle

DedupCall ==
    /\ ~dDone
    /\ dOut' = DeduplicatePapers(dPapers)
    /\ dDone' = TRUE
    /\ UNCHANGED dPapers
    /\ UNCHANGED rankVars
    /\ UNCHANGED pipeVars
    /\ UNCHANGED <<resolverVars, joinVars>>

NextDedup == DedupCall

SpecDedup == InitDedup /\ [][NextDedup]_vars

\* C1: in the Deduplicator's output no two papers share the same non-empty DOI.
C1_NoSharedDoi ==
    dDone => \A i, j \in 1..Len(dOut) :
                (i # j /\ ~IsNullOrEmpty(dOut[i].doi)) => dOut[i].doi # dOut[j].doi

\* C1 witness: the same DOI was delivered by two different sources and the
\* output holds exactly one paper with it.
C1_Witness ==
    /\ dDone
    /\ \E i, j \in 1..Len(dPapers) :
          /\ i # j
          /\ ~IsNullOrEmpty(dPapers[i].doi)
          /\ dPapers[i].doi = dPapers[j].doi
          /\ dPapers[i].source # dPapers[j].source
          /\ Cardinality({k \in 1..Len(dOut) : dOut[k].doi = dPapers[i].doi}) = 1

\* C2: in the Deduplicator's output no two results have a title similarity
\* above the 0.92 threshold.
C2_NoSimilarTitles ==
    dDone => \A i, j \in 1..Len(dOut) :
                i # j => ~SimilarityAboveThreshold(dOut[i].title, dOut[j].title)

\* C12: of two papers judged duplicates of each other, the one with a DOI, a
\* PDF URL and an abstract is kept and the one with only a title is discarded,
\* in either order of arrival.
C12_RicherDuplicateKept ==
    (dDone /\ Len(dPapers) = 2) =>
        \A i, j \in 1..2 :
            LET rich == dPapers[i]
                poor == dPapers[j]
            IN  (/\ i # j
                 /\ SimilarityAboveThreshold(rich.title, poor.title)
                 /\ ~IsNullOrEmpty(rich.doi) /\ ~IsNullOrEmpty(rich.pdfUrl)
                 /\ rich.abstract # <<>>
                 /\ IsNullOrEmpty(poor.doi) /\ IsNullOrEmpty(poor.pdfUrl)
                 /\ poor.abstract = <<>>)
                => dOut = <<rich>>

\* C13: two papers whose titles differ only by letter case or surrounding
\* whitespace are merged into one result; two papers whose title similarity
\* is not above 0.92 and that share no DOI are both kept.
C13_TitleThreshold ==
    (dDone /\ Len(dPapers) = 2) =>
        LET a == dPapers[1]
            b == dPapers[2]
            sameDoi == ~IsNullOrEmpty(a.doi) /\ a.doi = b.doi
        IN  /\ (/\ a.title # b.title
                /\ Trim(ToLowerInvariant(a.title)) = Trim(ToLowerInvariant(b.title)))
               => Len(dOut) = 1
            /\ (~SimilarityAboveThreshold(a.title, b.title) /\ ~sameDoi)
               => dOut = dPapers

\* Two papers the Deduplicator's rules make duplicates of each other.
SameDoi(a, b) == ~IsNullOrEmpty(a.doi) /\ a.doi = b.doi
Duplicates(a, b) == SameDoi(a, b) \/ SimilarityAboveThreshold(a.title, b.title)

\* C22: of two papers with the same DOI, the later one replaces the earlier
\* one when it is preferable, and is dropped when it is not.
C22_PreferableDoiReplaces ==
    (dDone /\ Len(dPapers) = 2 /\ SameDoi(dPapers[1], dPapers[2])) =>
        dOut = IF IsPreferablePaper(dPapers[2], dPapers[1])
               THEN <<dPapers[2]>> ELSE <<dPapers[1]>>

\* C23: of two papers judged duplicates, the one with the higher additive
\* score (+3 DOI, +2 PDF URL, +2 abstract, +1 open access, + author count) is
\* kept and the other discarded; on equal scores the first-seen one is kept.
C23_HigherScoreKept ==
    (dDone /\ Len(dPapers) = 2 /\ Duplicates(dPapers[1], dPapers[2])) =>
        LET score(p) == (IF IsNullOrEmpty(p.doi) THEN 0 ELSE 3)
                          + (IF IsNullOrEmpty(p.pdfUrl) THEN 0 ELSE 2)
                          + (IF p.abstract = <<>> THEN 0 ELSE 2)
                          + (IF p.isOpenAccess THEN 1 ELSE 0)
                          + Len(p.authors)
        IN  dOut = IF score(dPapers[2]) > score(dPapers[1])
                   THEN <<dPapers[2]>> ELSE <<dPapers[1]>>

\* C27: every input paper that is not in the output has a representative
\* there: an output paper with the same non-empty DOI or a similar title.
C27_DroppedHasRepresentative ==
    dDone => \A i \in 1..Len(dPapers) :
                dPapers[i] \notin Range(dOut)
                    => \E j \in 1..Len(dOut) : Duplicates(dPapers[i], dOut[j])

----------------------------------------------------------------------------
(* Specification of the Ranker alone: any query of Queries against any     *)
(* list of at most MaxRankLen distinct paper objects.                       *)

Queries == {Q_deepnets, Q_net, Q_ab, Q_DeepPunct, Q_nodes}

RankCatalog == {P1, P3, P4, P5, P7, P8, P9, P10}

InitRank ==
    /\ kQuery \in Queries
    /\ kPapers \in InjSeqs(RankCatalog, MaxRankLen)
    /\ kOut = <<>>
    /\ kDone = FALSE
    /\ DedupIdle
    /\ PipelineIdle
    /\ ResolverIdle
    /\ JoinIdle

RankCall ==
    /\ ~kDone
    /\ kOut' = RankPapers(kQuery, kPapers)
    /\ kDone' = TRUE
    /\ UNCHANGED <<kQuery, kPapers>>
    /\ UNCHANGED dedupVars
    /\ UNCHANGED pipeVars
    /\ UNCHANGED <<resolverVars, joinVars>>

NextRank == RankCall

SpecRank == InitRank /\ [][NextRank]_vars

IndexOf(s, x) == CHOOSE i \in 1..Len(s) : s[i] = x

\* C8: RankPapersAsync returns a permutation of its input in which no paper
\* comes before a paper with a strictly higher score, and papers with equal
\* scores (or both without a comparable score) keep their input order.
C8_RankSortedStable ==
    kDone =>
        /\ Len(kOut) = Len(kPapers)
        /\ Range(kOut) = Range(kPapers)
        /\ \A i, j \in 1..Len(kOut) :
              i < j =>
                LET si == ScoreOf(kQuery, kOut[i])
                    sj == ScoreOf(kQuery, kOut[j])
                IN  /\ ~LessDouble(si, sj)
                    /\ (EqualDouble(si, sj) \/ (si.nan /\ sj.nan))
                          => IndexOf(kPapers, kOut[i]) < IndexOf(kPapers, kOut[j])

\* C8 witness: the sort moved a higher-scored paper in front of a lower-scored
\* one that preceded it in the input, and the output also holds an exact tie.
C8_Witness ==
    /\ kDone
    /\ \E i, j \in 1..Len(kOut) :
          /\ i < j
          /\ LessDouble(ScoreOf(kQuery, kOut[j]), ScoreOf(kQuery, kOut[i]))
          /\ IndexOf(kPapers, kOut[j]) < IndexOf(kPapers, kOut[i])
    /\ \E i, j \in 1..Len(kOut) :
          i < j /\ EqualDouble(ScoreOf(kQuery, kOut[i]), ScoreOf(kQuery, kOut[j]))

\* C10: every score the Ranker computes is finite (not NaN) and non-negative.
C10_ScoreFiniteNonNegative ==
    kDone => \A i \in 1..Len(kPapers) :
                LET s == ScoreOf(kQuery, kPapers[i])
                IN  ~s.nan /\ s.v >= 0

\* C11: when the query has no term (every token has length <= 2), the keyword
\* score of every paper is 0.
C11_NoTermsKeywordZero ==
    kDone => (TokenizeQuery(kQuery) = <<>> =>
                \A i \in 1..Len(kPapers) :
                    CalculateBM25Score(TokenizeQuery(kQuery), kPapers[i]) = D(0))

\* The query terms that occur in the title (case-folded).
TermsInTitle(query, paper) ==
    {t \in Range(TokenizeQuery(query)) : Contains(ToLowerInvariant(paper.title), t)}

\* C14: a paper with an empty abstract whose title contains none of the
\* query terms has keyword score 0.
C14_NoTermInTitleKeywordZero ==
    kDone => \A i \in 1..Len(kPapers) :
                (kPapers[i].abstract = <<>> /\ TermsInTitle(kQuery, kPapers[i]) = {})
                    => CalculateBM25Score(TokenizeQuery(kQuery), kPapers[i]) = D(0)

\* C15: for a query of at least two terms, a paper whose title is the query
\* verbatim scores strictly higher than an otherwise identical paper whose
\* title holds a proper, non-empty subset of the terms.
C15_VerbatimBeatsPartial ==
    kDone => \A i, j \in 1..Len(kPapers) :
                LET full == kPapers[i]
                    part == kPapers[j]
                    terms == Range(TokenizeQuery(kQuery))
                IN  (/\ Cardinality(terms) >= 2
                     /\ ToLowerInvariant(full.title) = ToLowerInvariant(kQuery)
                     /\ [part EXCEPT !.title = full.title, !.ref = full.ref] = full
                     /\ TermsInTitle(kQuery, part) # {}
                     /\ TermsInTitle(kQuery, part) # terms)
                    => LessDouble(ScoreOf(kQuery, part), ScoreOf(kQuery, full))

----------------------------------------------------------------------------
(* Open-Access Resolver: UnpaywallClient.LookupAsync                       *)

OpenAccessInfo(isOpenAccess, pdfUrl) == [isOpenAccess |-> isOpenAccess, pdfUrl |-> pdfUrl]

\* JsonSerializer.Serialize(openAccessInfo) and Deserialize<OpenAccessInfo>.
SerializeInfo(info) == <<info.isOpenAccess, info.pdfUrl>>
DeserializeInfo(json) == OpenAccessInfo(json[1], json[2])

\* What the Unpaywall API can answer to a GET for a DOI: a record (parsed by
\* ParseUnpaywallResponse), 404, or a failure (other status, exception).
Found(info) == [status |-> "ok", info |-> info]
NotFound == [status |-> "notFound", info |-> OpenAccessInfo(FALSE, Null)]
Unreachable == [status |-> "error", info |-> OpenAccessInfo(FALSE, Null)]
UnpaywallAnswers ==
    {Found(OpenAccessInfo(TRUE, "uoa")), Found(OpenAccessInfo(FALSE, Null)),
     NotFound, Unreachable}

\* LookupAsync for one DOI.  `cached` is the cache's text for the DOI, if
\* any; `result` is empty for null; `called` tells whether the HTTP request
\* was made, `store` whether the cache entry is written.
LookupAsync(doi, cached, net) ==
    IF IsNullOrEmpty(doi)
    THEN [result |-> <<>>, called |-> FALSE, store |-> FALSE]
    ELSE IF cached # <<>>
    THEN [result |-> <<DeserializeInfo(cached[1])>>, called |-> FALSE, store |-> FALSE]
    ELSE IF net.status = "notFound"
    THEN [result |-> <<OpenAccessInfo(FALSE, Null)>>, called |-> TRUE, store |-> FALSE]
    ELSE IF net.status = "ok"
    THEN [result |-> <<net.info>>, called |-> TRUE, store |-> TRUE]
    ELSE [result |-> <<>>, called |-> TRUE, store |-> FALSE]

CachedInfo(doi) == IF doi \in DOMAIN oaCache THEN <<oaCache[doi]>> ELSE <<>>

StoreInfo(doi, res) ==
    IF res.store THEN (doi :> SerializeInfo(res.result[1])) @@ oaCache ELSE oaCache

----------------------------------------------------------------------------
(* Specification of the Resolver alone: up to MaxLookups lookups of the    *)
(* DOIs of LookupDois, within the 7 days an entry lives.                   *)

LookupDois == {"10.1/a", "10.1/b"}

InitLookup ==
    /\ DedupIdle
    /\ RankIdle
    /\ PipelineIdle
    /\ ResolverIdle
    /\ JoinIdle

\* One call of LookupAsync.  `prior` is the first non-null answer an earlier
\* call gave for the DOI, if any; `answered` keeps these answers.
LookupCall ==
    /\ lookup.n < MaxLookups
    /\ \E doi \in LookupDois, net \in UnpaywallAnswers :
          LET res == LookupAsync(doi, CachedInfo(doi), net)
              known == doi \in DOMAIN lookup.answered
          IN  /\ lookup' = [n |-> lookup.n + 1, doi |-> doi, result |-> res.result,
                            called |-> res.called,
                            prior |-> IF known THEN <<lookup.answered[doi]>> ELSE <<>>,
                            answered |-> IF res.result # <<>> /\ ~known
                                         THEN (doi :> res.result[1]) @@ lookup.answered
                                         ELSE lookup.answered]
              /\ oaCache' = StoreInfo(doi, res)
    /\ UNCHANGED enrich
    /\ UNCHANGED <<dedupVars, rankVars, pipeVars, joinVars>>

NextLookup == LookupCall

SpecLookup == InitLookup /\ [][NextLookup]_vars

\* C25: once a lookup of a DOI has returned a non-null OpenAccessInfo, every
\* later lookup of that DOI returns the same value and makes no network call.
C25_LookupAnsweredFromCache ==
    lookup.prior # <<>> => (lookup.result = lookup.prior /\ ~lookup.called)

----------------------------------------------------------------------------
(* Specification of Enrich alone: one call of EnhanceWithOpenAccessAsync   *)
(* on a list with up to MaxEnrichDois DOI-bearing papers.                   *)

BatchSize == 10

DoiNames == <<"10.9/01", "10.9/02", "10.9/03", "10.9/04", "10.9/05", "10.9/06",
              "10.9/07", "10.9/08", "10.9/09", "10.9/10", "10.9/11", "10.9/12",
              "10.9/13">>

\* The i-th DOI-bearing paper of the input: closed access, no PDF URL.
E(i) == Paper(200 + i, "crossref", T_node, <<>>, DoiNames[i], Null, <<>>, FALSE, <<>>)

\* A paper without DOI followed by n papers with DOIs.
EnrichList(n) == <<P4>> \o [i \in 1..n |-> E(i)]

\* What the Unpaywall API answers for the paper at index i of the list.
UnpaywallFor(i) ==
    CASE i % 3 = 2 -> Found(OpenAccessInfo(TRUE, "uoa"))
      [] i % 3 = 0 -> NotFound
      [] OTHER -> Unreachable

\* papers.Where(p => !string.IsNullOrEmpty(p.Doi)), as indexes of the list.
DoiIndexes(papers) == {i \in 1..Len(papers) : ~IsNullOrEmpty(papers[i].doi)}

\* The DOI-bearing papers no batch has taken yet, in list order.
NotStarted(e) ==
    SelectSeq([i \in 1..Len(e.papers) |-> i],
              LAMBDA i : i \in DoiIndexes(e.papers) /\ i \notin e.started)

\* Mutant: no chunking, every remaining lookup is issued at once.
NextBatch_All(pending) == pending

\* Chunk(batchSize): the next batch is the first batchSize papers left.
NextBatch(pending) == SubSeq(pending, 1, Min2(BatchSize, Len(pending)))

InitEnrich ==
    /\ DedupIdle
    /\ RankIdle
    /\ PipelineIdle
    /\ JoinIdle
    /\ oaCache = <<>>
    /\ lookup = NoLookup
    /\ \E n \in 0..MaxEnrichDois :
          enrich = [EnrichIdle EXCEPT !.pc = "Next", !.papers = EnrichList(n)]

\* foreach (var batch in batches): Task.WhenAll starts every lookup of the
\* next batch.
EnrichStartBatch ==
    /\ enrich.pc = "Next"
    /\ NotStarted(enrich) # <<>>
    /\ enrich' = [enrich EXCEPT !.pc = "Batch",
                                !.started = @ \cup Range(NextBatch(NotStarted(enrich)))]
    /\ UNCHANGED <<oaCache, lookup>>
    /\ UNCHANGED <<dedupVars, rankVars, pipeVars, joinVars>>

\* One lookup of the batch in flight completes.  With the token cancelled
\* the cache read throws and LookupAsync returns null.
EnrichLookupComplete(i) ==
    /\ enrich.pc = "Batch"
    /\ i \in enrich.started \ enrich.completed
    /\ LET doi == enrich.papers[i].doi
           res == IF enrich.cancelled
                  THEN LookupAsync(doi, <<>>, Unreachable)
                  ELSE LookupAsync(doi, CachedInfo(doi), UnpaywallFor(i))
       IN  /\ enrich' = [enrich EXCEPT !.completed = @ \cup {i},
                                       !.info = (i :> res.result) @@ @]
           /\ oaCache' = StoreInfo(doi, res)
    /\ UNCHANGED lookup
    /\ UNCHANGED <<dedupVars, rankVars, pipeVars, joinVars>>

\* await Task.WhenAll(tasks) returns when every lookup of the batch has.
EnrichJoinBatch ==
    /\ enrich.pc = "Batch"
    /\ enrich.started = enrich.completed
    /\ enrich' = [enrich EXCEPT !.pc = "Delay"]
    /\ UNCHANGED <<oaCache, lookup>>
    /\ UNCHANGED <<dedupVars, rankVars, pipeVars, joinVars>>

\* await Task.Delay(100, cancellationToken): the delay elapses, or throws
\* when the token is cancelled.
EnrichDelay ==
    /\ enrich.pc = "Delay"
    /\ enrich' = IF enrich.cancelled
                 THEN [enrich EXCEPT !.pc = "Failed"]
                 ELSE [enrich EXCEPT !.pc = "Next", !.delays = @ + 1]
    /\ UNCHANGED <<oaCache, lookup>>
    /\ UNCHANGED <<dedupVars, rankVars, pipeVars, joinVars>>

\* No batch is left: the method returns, and the caller goes on with its list.
EnrichReturn ==
    /\ enrich.pc = "Next"
    /\ NotStarted(enrich) = <<>>
    /\ enrich' = [enrich EXCEPT !.pc = "Done", !.out = EnhanceWithOpenAccess(enrich.papers)]
    /\ UNCHANGED <<oaCache, lookup>>
    /\ UNCHANGED <<dedupVars, rankVars, pipeVars, joinVars>>

\* The caller's token is cancelled while the method awaits.
EnrichCancel ==
    /\ enrich.pc \in {"Batch", "Delay"}
    /\ ~enrich.cancelled
    /\ enrich' = [enrich EXCEPT !.cancelled = TRUE]
    /\ UNCHANGED <<oaCache, lookup>>
    /\ UNCHANGED <<dedupVars, rankVars, pipeVars, joinVars>>

NextEnrich ==
    \/ EnrichStartBatch
    \/ \E i \in 1..Len(enrich.papers) : EnrichLookupComplete(i)
    \/ EnrichJoinBatch
    \/ EnrichDelay
    \/ EnrichReturn
    \/ EnrichCancel

SpecEnrich == InitEnrich /\ [][NextEnrich]_vars

\* C21: after Enrich, a DOI-bearing paper whose lookup returned an
\* OpenAccessInfo carries its isOpenAccess, and its pdfUrl when it has one;
\* a paper whose lookup returned null keeps its fields.
C21_EnrichmentApplied ==
    enrich.pc = "Done" =>
        \A i \in DOMAIN enrich.info :
            IF enrich.info[i] = <<>>
            THEN enrich.out[i] = enrich.papers[i]
            ELSE /\ enrich.out[i].isOpenAccess = enrich.info[i][1].isOpenAccess
                 /\ enrich.info[i][1].pdfUrl # Null
                       => enrich.out[i].pdfUrl = enrich.info[i][1].pdfUrl

\* The batch of the DOI-bearing paper at index i: the k-th such paper of the
\* list is in batch ceil(k / BatchSize).
BatchOf(papers, i) ==
    ((Cardinality({j \in DoiIndexes(papers) : j <= i}) - 1) \div BatchSize) + 1

\* C24: only DOI-bearing papers are looked up, at most BatchSize lookups are
\* in flight, and a lookup has started only after every lookup of the
\* batches before its own has completed and a delay has elapsed after each
\* of those batches.
C24_BatchedLookups ==
    /\ enrich.started \subseteq DoiIndexes(enrich.papers)
    /\ Cardinality(enrich.started \ enrich.completed) <= BatchSize
    /\ \A i \in enrich.started :
          /\ enrich.delays >= BatchOf(enrich.papers, i) - 1
          /\ \A j \in DoiIndexes(enrich.papers) :
                BatchOf(enrich.papers, j) < BatchOf(enrich.papers, i)
                    => j \in enrich.completed

\* C24 witness: a lookup of the second batch is in flight, after a first
\* batch of BatchSize lookups and one delay, next to a paper without DOI.
C24_Witness ==
    /\ \E i \in enrich.started \ enrich.completed : BatchOf(enrich.papers, i) = 2
    /\ Cardinality(enrich.completed) = BatchSize
    /\ enrich.delays = 1
    /\ DoiIndexes(enrich.papers) # 1..Len(enrich.papers)

----------------------------------------------------------------------------
(* Further claims about the search pipeline (Spec)                         *)

\* C26: when a search is answered, each result of the response carries as
\* its score the value the Ranker computed for that paper, and the row
\* stored for it carries the same value.
C26_ScoreReported ==
    [][\A r \in Reqs :
          (search[r].pc = "Persist" /\ search'[r].pc = "Done") =>
              LET final == search[r].finalResults
                  results == search'[r].response.results
              IN  /\ Len(results) = Len(final)
                  /\ \A i \in 1..Len(final) :
                        /\ results[i].score = ScoreOf(search[r].request.query, final[i])
                        /\ \E row \in searchResults' :
                              /\ row.id = results[i].id
                              /\ row.score = results[i].score]_vars

\* The search is about to store a paper whose DOI an earlier search stored.
StoresKnownDoi(r) ==
    \E i \in 1..Len(search[r].finalResults), old \in searchResults :
        /\ search[r].finalResults[i].doi # Null
        /\ old.doi = search[r].finalResults[i].doi

\* C28: a search whose turn it is to Persist, uncancelled, with a paper whose
\* DOI an earlier search already stored can store its rows and answer: the
\* unique index on the stored DOI does not stand in its way.
C28_RepeatedDoiPersists ==
    \A r \in Reqs :
        (/\ search[r].pc = "Persist" /\ Scheduled(r)
         /\ ~search[r].cancelled /\ StoresKnownDoi(r))
            => ENABLED (Persist(r) /\ search'[r].pc = "Done")

\* C29: a source search that fails leaves the cache unchanged, so no entry
\* is written for its key; and the cache changes only when a source search
\* succeeds, by the entry of that search's key holding the list it returned.
C29_FailedSearchNotCached ==
    [][/\ \A r \in Reqs : \A c \in ClientSet :
             (search[r].outcome[c] = "none" /\ search'[r].outcome[c] = "failed")
                 => cache' = cache
       /\ cache' # cache =>
             \E r \in Reqs : \E c \in ClientSet :
                 /\ search[r].outcome[c] = "none"
                 /\ search'[r].outcome[c] = "ok"
                 /\ search'[r].results[c] # <<>>
                 /\ cache' = (CacheKey(c, search[r].request)
                                 :> Serialize(search'[r].results[c])) @@ cache]_vars

----------------------------------------------------------------------------
(* Specification of the fan-out alone: the source tasks of one SearchAsync *)
(* call with fixed per-source responses, completing in any order, and the   *)
(* stages that follow the merge.                                            *)

\* Mutant: the array holds the results in the order the tasks completed.
WhenAll_CompletionOrder(results, order) == [i \in 1..Len(order) |-> results[order[i]]]

\* Task.WhenAll(searchTasks): the array of the tasks' results, in the order
\* of the tasks, which is the order of _searchClients.
WhenAll(results, order) == [i \in 1..Len(Clients) |-> results[Clients[i]]]

\* allResults.SelectMany(results => results).ToList()
RECURSIVE Flatten(_)
Flatten(allResults) ==
    IF allResults = <<>> THEN <<>>
    ELSE Head(allResults) \o Flatten(Tail(allResults))

R_Two == Request(Q_deepnets, <<>>, <<>>, 2, FALSE)

\* Each source fails (an empty list) or answers the request.
InitJoin ==
    /\ DedupIdle
    /\ RankIdle
    /\ PipelineIdle
    /\ ResolverIdle
    /\ \E request \in {R_Plain, R_OaOnly, R_Two} :
       \E responses \in [ClientSet -> BOOLEAN] :
          join = [NoJoin EXCEPT
                    !.pc = "Join",
                    !.query = request.query,
                    !.limit = request.limit,
                    !.openAccessOnly = request.openAccessOnly,
                    !.responses = [c \in ClientSet |->
                                      SearchClientSafely(<<>>, responses[c],
                                          NetworkResponse(c, request)).papers],
                    !.tasks = [c \in ClientSet |-> Running],
                    !.results = [c \in ClientSet |-> <<>>]]

\* One source task completes with its source's response.
JoinSourceComplete(c) ==
    /\ join.pc = "Join"
    /\ join.tasks[c] = Running
    /\ join' = [join EXCEPT !.tasks[c] = "completed",
                            !.results[c] = join.responses[c],
                            !.order = Append(@, c)]
    /\ UNCHANGED <<dedupVars, rankVars, pipeVars, resolverVars>>

\* await Task.WhenAll(searchTasks) returns, and the lists are merged.
JoinWhenAll ==
    /\ join.pc = "Join"
    /\ \A c \in ClientSet : join.tasks[c] = "completed"
    /\ join' = [join EXCEPT !.pc = "Deduplicate",
                            !.flatResults = Flatten(WhenAll(join.results, join.order))]
    /\ UNCHANGED <<dedupVars, rankVars, pipeVars, resolverVars>>

\* Deduplicate, Enrich, Filter, Rank and Truncate over the merged list.
JoinStages ==
    /\ join.pc = "Deduplicate"
    /\ LET deduplicatedResults == EnhanceWithOpenAccess(DeduplicatePapers(join.flatResults))
           rankedResults == RankPapers(join.query,
                                FilterOpenAccess(join.openAccessOnly, deduplicatedResults))
       IN  join' = [join EXCEPT !.pc = "Done",
                                !.deduplicatedResults = deduplicatedResults,
                                !.finalResults = TakeTop(rankedResults, join.limit)]
    /\ UNCHANGED <<dedupVars, rankVars, pipeVars, resolverVars>>

NextJoin ==
    \/ \E c \in ClientSet : JoinSourceComplete(c)
    \/ JoinWhenAll
    \/ JoinStages

SpecJoin == InitJoin /\ [][NextJoin]_vars

\* C30: the merged list, the deduplicated list and the final ordering are
\* determined by the per-source responses alone, whatever the order in which
\* the source tasks completed.
C30_CompletionOrderIrrelevant ==
    LET merged == SelectMany(join.responses, 1)
        deduplicated == DeduplicatePapers(merged)
        final == TakeTop(RankPapers(join.query,
                             FilterOpenAccess(join.openAccessOnly, deduplicated)),
                         join.limit)
    IN  /\ join.pc \in {"Deduplicate", "Done"} => join.flatResults = merged
        /\ join.pc = "Done" => /\ join.deduplicatedResults = deduplicated
                               /\ join.finalResults = final

\* C30 witness: the three sources answered, their tasks completed in the
\* reverse of the order they were started in, and the search went on to a
\* final list of two papers.
C30_Witness ==
    /\ join.pc = "Done"
    /\ join.order = <<Clients[3], Clients[2], Clients[1]>>
    /\ \A c \in ClientSet : join.responses[c] # <<>>
    /\ Len(join.finalResults) = 2

====
